---- MODULE Spec2Model ----
(***************************************************************************)
(* Google Docs MCP server: the GoogleDocsClient (src/src/google-docs-      *)
(* client.ts), the MCP server and its call-tool handler (src/unnamed/      *)
(* part_000, the server's index file), and the connection test script      *)
(* (src/src/test-connection.ts) as one state machine.                      *)
(*                                                                         *)
(* JavaScript values.  An optional value is a sequence of length <= 1:     *)
(* <<>> is undefined, <<v>> is the value v.  Every JS function is async:   *)
(* one action of the model is the synchronous run of the code from one     *)
(* await (or from the start of a handler) to the next await or return.     *)
(***************************************************************************)
EXTENDS Integers, Sequences, FiniteSets, TLC

VARIABLES
    prog,      \* which entry point ran: "none", "server" (part_000), "lib" (new GoogleDocsClient),
               \* "script" (test-connection.ts)
    status,    \* "init", "serving" (server up), "constructed" (client built by a library user or
               \* the script), "crashed" (an error thrown at start-up)
    consts,    \* the six resolved configuration values the entry point holds
    ctor,      \* the GoogleDocsClient constructor's invocation: its locals and what it threw
    client,    \* the GoogleDocsClient object: projectId, auth, docsClient, driveClient
    startErr,  \* the error thrown at start-up (<<>> when none)
    call,      \* per tool call in flight: the handler's and the client operation's position
    netUsed,   \* whether any request was ever sent to the remote service
    script,    \* test-connection.ts: main's position, its verifyConnection call, what it printed
    proc       \* the process: running or exited, its exit code, the transport, the last fault logged

vars == <<prog, status, consts, ctor, startErr, client, call, netUsed, script, proc>>

----------------------------------------------------------------------------
(* JavaScript values *)

Undefined == <<>>

Some(v) == <<v>>

\* JS truthiness of an optional string: undefined and '' are falsy.
TruthyStr(o) == o # Undefined /\ o[1] # ""

\* JS truthiness of an optional boolean.
TruthyBool(o) == o # Undefined /\ o[1] = TRUE

\* JS truthiness of an optional number: undefined and 0 are falsy.
TruthyNum(o) == o # Undefined /\ o[1] # 0

\* a || b on optional strings.
OrStr(a, b) == IF TruthyStr(a) THEN a ELSE b

\* A default parameter value (p = d): d replaces undefined only.
Default(o, d) == IF o = Undefined THEN Some(d) ELSE o

----------------------------------------------------------------------------
(* Configuration: command-line flags, environment, file system *)

ConfigKeys ==
    {"serviceAccountPath", "apiKey", "projectId",
     "oauthClientId", "oauthClientSecret", "oauthRefreshToken"}

\* The value a configuration input takes when it is present.
ConfigValue(k) ==
    CASE k = "serviceAccountPath" -> "/keys/sa.json"
      [] k = "apiKey"             -> "AIzaKEY"
      [] k = "projectId"          -> "my-project"
      [] k = "oauthClientId"      -> "client-id"
      [] k = "oauthClientSecret"  -> "client-secret"
      [] k = "oauthRefreshToken"  -> "refresh-token"

\* Every assignment of present/absent to the six inputs.
ConfigRecords == [ConfigKeys -> {"absent", "present"}]

AsOptions(f) == [k \in ConfigKeys |-> IF f[k] = "present" THEN Some(ConfigValue(k)) ELSE Undefined]

OptionSets == {AsOptions(f) : f \in ConfigRecords}

NoOptions == [k \in ConfigKeys |-> Undefined]

----------------------------------------------------------------------------
(* GoogleDocsClient.constructor *)

ErrProjectIdRequired ==
    <<"GOOGLE_CLOUD_PROJECT_ID environment variable or projectId parameter is required">>

ErrNoCredentials ==
    <<"Either GOOGLE_API_KEY, GOOGLE_APPLICATION_CREDENTIALS, or OAuth credentials must be provided">>

ErrKeyFileNotFound(path) == <<"Service account key file not found at: ", path>>

NoAuth == [type |-> "undefined", cred |-> <<>>]

Scopes == <<"https://www.googleapis.com/auth/documents", "https://www.googleapis.com/auth/drive">>

\* The locals of the constructor (lines 23-38): options.x || process.env.X.
CtorLocals(options, env) ==
    [projectId          |-> OrStr(OrStr(options.projectId, env.projectId), Some("")),
     apiKey             |-> OrStr(options.apiKey, env.apiKey),
     serviceAccountPath |-> OrStr(options.serviceAccountPath, env.serviceAccountPath),
     oauthClientId      |-> OrStr(options.oauthClientId, env.oauthClientId),
     oauthClientSecret  |-> OrStr(options.oauthClientSecret, env.oauthClientSecret),
     oauthRefreshToken  |-> OrStr(options.oauthRefreshToken, env.oauthRefreshToken)]

OAuthComplete(l) ==
    TruthyStr(l.oauthClientId) /\ TruthyStr(l.oauthClientSecret) /\ TruthyStr(l.oauthRefreshToken)

\* Faulty variant of NoCredentialSet: any one OAuth value counts as an OAuth credential set.
NoCredentialSet_AnyOAuthValue(l) ==
    /\ ~TruthyStr(l.apiKey) /\ ~TruthyStr(l.serviceAccountPath)
    /\ ~(TruthyStr(l.oauthClientId) \/ TruthyStr(l.oauthClientSecret)
           \/ TruthyStr(l.oauthRefreshToken))

\* Line 41: none of the three credential sets is there.
NoCredentialSet(l) ==
    ~TruthyStr(l.apiKey) /\ ~TruthyStr(l.serviceAccountPath) /\ ~OAuthComplete(l)

\* Faulty variant of SelectAuth: the service-account branch is tried before the API key.
SelectAuth_ServiceAccountFirst(l, fileExists) ==
    IF TruthyStr(l.serviceAccountPath)
    THEN IF ~fileExists
         THEN [thrown |-> ErrKeyFileNotFound(l.serviceAccountPath[1]), auth |-> NoAuth]
         ELSE [thrown |-> <<>>,
               auth |-> [type |-> "GoogleAuth", cred |-> <<l.serviceAccountPath[1]>> \o Scopes]]
    ELSE IF TruthyStr(l.apiKey)
    THEN [thrown |-> <<>>, auth |-> [type |-> "string", cred |-> <<l.apiKey[1]>>]]
    ELSE IF OAuthComplete(l)
    THEN [thrown |-> <<>>,
          auth |-> [type |-> "OAuth2",
                    cred |-> <<l.oauthClientId[1], l.oauthClientSecret[1], l.oauthRefreshToken[1]>>]]
    ELSE [thrown |-> <<>>, auth |-> NoAuth]

\* Faulty variant of SelectAuth: a missing key file falls through to the OAuth2 branch.
SelectAuth_FallsThrough(l, fileExists) ==
    IF TruthyStr(l.apiKey)
    THEN [thrown |-> <<>>, auth |-> [type |-> "string", cred |-> <<l.apiKey[1]>>]]
    ELSE IF TruthyStr(l.serviceAccountPath) /\ fileExists
    THEN [thrown |-> <<>>,
          auth |-> [type |-> "GoogleAuth", cred |-> <<l.serviceAccountPath[1]>> \o Scopes]]
    ELSE IF OAuthComplete(l)
    THEN [thrown |-> <<>>,
          auth |-> [type |-> "OAuth2",
                    cred |-> <<l.oauthClientId[1], l.oauthClientSecret[1], l.oauthRefreshToken[1]>>]]
    ELSE IF TruthyStr(l.serviceAccountPath)
    THEN [thrown |-> ErrKeyFileNotFound(l.serviceAccountPath[1]), auth |-> NoAuth]
    ELSE [thrown |-> <<>>, auth |-> NoAuth]

\* Lines 45-77: this.auth, or the error thrown; fileExists is fs.existsSync(serviceAccountPath).
SelectAuth(l, fileExists) ==
    IF TruthyStr(l.apiKey)
    THEN [thrown |-> <<>>, auth |-> [type |-> "string", cred |-> <<l.apiKey[1]>>]]
    ELSE IF TruthyStr(l.serviceAccountPath)
    THEN IF ~fileExists
         THEN [thrown |-> ErrKeyFileNotFound(l.serviceAccountPath[1]), auth |-> NoAuth]
         ELSE [thrown |-> <<>>,
               auth |-> [type |-> "GoogleAuth", cred |-> <<l.serviceAccountPath[1]>> \o Scopes]]
    ELSE IF OAuthComplete(l)
    THEN [thrown |-> <<>>,
          auth |-> [type |-> "OAuth2",
                    cred |-> <<l.oauthClientId[1], l.oauthClientSecret[1], l.oauthRefreshToken[1]>>]]
    ELSE [thrown |-> <<>>, auth |-> NoAuth]

\* google.docs({version, auth}) / google.drive({version, auth})
ApiClient(api, version, auth) == [api |-> api, version |-> version, auth |-> auth]

NoClient ==
    [projectId |-> "", auth |-> NoAuth,
     docsClient |-> ApiClient("", "", NoAuth), driveClient |-> ApiClient("", "", NoAuth)]

\* new GoogleDocsClient(options) under process.env = env: the invocation's record.
\* thrown = <<>> when the constructor returned; object is then the new client.
Construct(options, env, fileExists) ==
    LET l == CtorLocals(options, env)
        s == SelectAuth(l, fileExists)
        base == [called |-> TRUE, locals |-> l, fileExists |-> fileExists]
    IN  IF ~TruthyStr(l.projectId)
        THEN base @@ [thrown |-> ErrProjectIdRequired, object |-> NoClient]
        ELSE IF NoCredentialSet(l)
        THEN base @@ [thrown |-> ErrNoCredentials, object |-> NoClient]
        ELSE IF s.thrown # <<>>
        THEN base @@ [thrown |-> s.thrown, object |-> NoClient]
        ELSE base @@ [thrown |-> <<>>,
                      object |-> [projectId   |-> l.projectId[1],
                                  auth        |-> s.auth,
                                  docsClient  |-> ApiClient("docs", "v1", s.auth),
                                  driveClient |-> ApiClient("drive", "v3", s.auth)]]

NotCalled ==
    [called |-> FALSE, locals |-> NoOptions, fileExists |-> FALSE,
     thrown |-> <<>>, object |-> NoClient]

\* GoogleDocsClient.getAuthType
getAuthType(auth) ==
    IF auth.type = "string" THEN "API Key"
    ELSE IF auth.type = "GoogleAuth" THEN "Service Account"
    ELSE IF auth.type = "OAuth2" THEN "OAuth2"
    ELSE "Unknown"

----------------------------------------------------------------------------
(* The remote service: what a request may be answered with *)

MaxBlocks == 2      \* content blocks of a fetched document
MaxSlack == 1       \* how far past its position the last block may end
MaxFiles == 1       \* files a list call returns

DocMime == "application/vnd.google-apps.document"

\* error.code of a remote error: a number, a string, or undefined.
CodeNum(n) == [t |-> "number", n |-> n, s |-> ""]
CodeStr(str) == [t |-> "string", n |-> 0, s |-> str]
CodeUndefined == [t |-> "undefined", n |-> 0, s |-> ""]

\* The errors a remote call rejects with (GaxiosError / network error).
RemoteErrors ==
    {[message |-> <<"Request had insufficient authentication scopes.">>,
      code |-> CodeNum(403), details |-> Undefined, stack |-> Some("Error: at Gaxios._request")],
     [message |-> <<"Request had insufficient authentication scopes.">>,
      code |-> CodeStr("403"), details |-> Undefined, stack |-> Some("Error: at Gaxios._request")],
     [message |-> <<"Requested entity was not found.">>,
      code |-> CodeNum(404), details |-> Some("notFound"), stack |-> Some("Error: at Gaxios._request")],
     [message |-> <<"getaddrinfo ENOTFOUND docs.googleapis.com">>,
      code |-> CodeStr("ENOTFOUND"), details |-> Undefined, stack |-> Some("Error: at GetAddrInfoReqWrap")],
     [message |-> <<"socket hang up">>,
      code |-> CodeUndefined, details |-> Undefined, stack |-> Some("Error: at TLSSocket")]}

\* A content block (structural element) of a document body.
Block(endIndex) == [endIndex |-> endIndex]

\* A body of n blocks: block i < n ends at i, the last block ends at `last`.
DocWith(n, last) ==
    [body |-> Some([content |->
        Some([i \in 1..n |-> IF i < n THEN Block(Some(i)) ELSE Block(last)])])]

\* The endIndex values of a last block at position n: missing, 0, or n..n+MaxSlack.
LastEnds(n) == {Undefined, Some(0)} \cup {Some(k) : k \in n..(n + MaxSlack)}

\* The documents documents.get answers with (docs_v1.Schema$Document: body and
\* body.content are optional).
Documents ==
    {[body |-> Undefined], [body |-> Some([content |-> Undefined])], DocWith(0, Undefined)}
    \cup UNION {{DocWith(n, e) : e \in LastEnds(n)} : n \in 1..MaxBlocks}

\* files.create response data: the new file's id (optional in drive_v3.Schema$File).
CreatedFiles == {[id |-> Undefined], [id |-> Some("new-doc")]}

File(i) == [id |-> i, name |-> "file"]

\* files.list response data.
FileLists ==
    {[files |-> f, nextPageToken |-> t] :
        f \in {Undefined} \cup {Some([i \in 1..n |-> File(i)]) : n \in 0..MaxFiles},
        t \in {Undefined, Some("next-page")}}

\* files.export response data (bytes), permissions.create response data.
ExportedBytes == {"%PDF-1.4"}

Permissions == {[id |-> "perm-1", type |-> "user"]}

----------------------------------------------------------------------------
(* The remote service: how files.list reads its q parameter *)

\* A string is a sequence of lexemes: a word, a quote ', a parenthesis, an operator.
\* The query strings a caller searches with: a word, a word with an apostrophe,
\* two words, and a text that closes the quote and the parenthesis it is put in.
Queries ==
    {<<"notes">>,
     <<"it", "'", "s">>,
     <<"meeting", "notes">>,
     <<"notes", "'", ")", "or", "(", "name", "contains", "'", "notes">>}

\* The files of the drive a filter is evaluated on.
DriveFiles ==
    [mimeType : {<<DocMime>>, <<"application/pdf">>},
     name     : {<<"notes">>, <<"budget">>},
     fullText : {<<"meeting", "notes">>, <<"numbers">>}]

QueryFields == {"mimeType", "name", "fullText"}

QueryOperators == {"=", "!=", "contains"}

Sym(x) == [k |-> "sym", v |-> <<x>>]

Lit(v) == [k |-> "str", v |-> v]

Least(S) == CHOOSE i \in S : \A j \in S : i <= j

\* Lexemes to tokens: a quote opens a string literal that runs to the next quote.
RECURSIVE Tokenize(_)
Tokenize(lex) ==
    IF lex = <<>> THEN [ok |-> TRUE, toks |-> <<>>]
    ELSE IF Head(lex) = "'"
    THEN LET rest == Tail(lex)
             close == {i \in 1..Len(rest) : rest[i] = "'"}
         IN  IF close = {} THEN [ok |-> FALSE, toks |-> <<>>]
             ELSE LET j == Least(close)
                      t == Tokenize(SubSeq(rest, j + 1, Len(rest)))
                  IN  [ok |-> t.ok, toks |-> <<Lit(SubSeq(rest, 1, j - 1))>> \o t.toks]
    ELSE LET t == Tokenize(Tail(lex))
         IN  [ok |-> t.ok, toks |-> <<Sym(Head(lex))>> \o t.toks]

\* text contains part: part is a run of consecutive lexemes of text.
ContainsText(text, part) ==
    \E i \in 0..(Len(text) - Len(part)) : SubSeq(text, i + 1, i + Len(part)) = part

\* One comparison of the filter on file f.
Compare(f, field, op, v) ==
    CASE op = "contains" -> ContainsText(f[field], v)
      [] op = "="        -> f[field] = v
      [] op = "!="       -> f[field] # v

ParseFailed == [ok |-> FALSE, val |-> FALSE, rest |-> <<>>]

StartsWith(toks, x) == toks # <<>> /\ toks[1] = Sym(x)

\* The filter language: or-terms of and-terms of comparisons and parenthesised
\* filters, 'and' binding tighter than 'or'; each yields its value on file f.
RECURSIVE ParseOr(_, _), ParseAnd(_, _), ParseAtom(_, _)
ParseAtom(toks, f) ==
    IF StartsWith(toks, "(")
    THEN LET e == ParseOr(Tail(toks), f)
         IN  IF e.ok /\ StartsWith(e.rest, ")")
             THEN [ok |-> TRUE, val |-> e.val, rest |-> Tail(e.rest)]
             ELSE ParseFailed
    ELSE IF /\ Len(toks) >= 3
            /\ toks[1].k = "sym" /\ toks[1].v[1] \in QueryFields
            /\ toks[2].k = "sym" /\ toks[2].v[1] \in QueryOperators
            /\ toks[3].k = "str"
    THEN [ok |-> TRUE, val |-> Compare(f, toks[1].v[1], toks[2].v[1], toks[3].v),
          rest |-> SubSeq(toks, 4, Len(toks))]
    ELSE ParseFailed

ParseAnd(toks, f) ==
    LET a == ParseAtom(toks, f)
    IN  IF a.ok /\ StartsWith(a.rest, "and")
        THEN LET b == ParseAnd(Tail(a.rest), f)
             IN  [ok |-> b.ok, val |-> a.val /\ b.val, rest |-> b.rest]
        ELSE a

ParseOr(toks, f) ==
    LET a == ParseAnd(toks, f)
    IN  IF a.ok /\ StartsWith(a.rest, "or")
        THEN LET b == ParseOr(Tail(a.rest), f)
             IN  [ok |-> b.ok, val |-> a.val \/ b.val, rest |-> b.rest]
        ELSE a

\* The filter q is well formed.
WellFormed(q) ==
    /\ Tokenize(q).ok
    /\ \A f \in DriveFiles :
         LET e == ParseOr(Tokenize(q).toks, f) IN e.ok /\ e.rest = <<>>

\* files.list with filter q lists file f (an ill-formed q is rejected: no file).
Admits(q, f) ==
    LET t == Tokenize(q)
        e == ParseOr(t.toks, f)
    IN  t.ok /\ e.ok /\ e.rest = <<>> /\ e.val

----------------------------------------------------------------------------
(* Tool calls *)

CallIds == {"c1"}

ToolNames ==
    {"google_docs_create", "google_docs_get", "google_docs_update", "google_docs_list",
     "google_docs_delete", "google_docs_export", "google_docs_share", "google_docs_search",
     "google_docs_verify_connection"}

\* Names that are not registered.
UnknownNames == {"google_docs_rename"}

OptStr(v) == {Undefined, Some(v)}

NoArgs ==
    [title |-> Undefined, content |-> Undefined, documentId |-> Undefined,
     replaceAll |-> Undefined, pageSize |-> Undefined, pageToken |-> Undefined,
     mimeType |-> Undefined, emailAddress |-> Undefined, role |-> Undefined,
     query |-> Undefined]

\* request.params.arguments of a call of `name` (a field not listed is undefined).
ArgSets(name) ==
    CASE name = "google_docs_create" ->
           {[NoArgs EXCEPT !.title = t, !.content = c] :
               t \in OptStr("Title"), c \in {Undefined, Some(""), Some("hello")}}
      [] name = "google_docs_get" ->
           {[NoArgs EXCEPT !.documentId = d] : d \in OptStr("doc1")}
      [] name = "google_docs_update" ->
           {[NoArgs EXCEPT !.documentId = d, !.content = c, !.replaceAll = r] :
               d \in OptStr("doc1"), c \in {Undefined, Some(""), Some("hello")},
               r \in {Undefined, Some(FALSE), Some(TRUE)}}
      [] name = "google_docs_list" ->
           {[NoArgs EXCEPT !.pageSize = n, !.pageToken = t] :
               n \in {Undefined, Some(5)}, t \in OptStr("next-page")}
      [] name = "google_docs_delete" ->
           {[NoArgs EXCEPT !.documentId = d] : d \in OptStr("doc1")}
      [] name = "google_docs_export" ->
           {[NoArgs EXCEPT !.documentId = d, !.mimeType = m] :
               d \in OptStr("doc1"), m \in OptStr("text/plain")}
      [] name = "google_docs_share" ->
           {[NoArgs EXCEPT !.documentId = d, !.emailAddress = e, !.role = r] :
               d \in OptStr("doc1"), e \in OptStr("a@example.com"), r \in OptStr("writer")}
      [] name = "google_docs_search" ->
           {[NoArgs EXCEPT !.query = q, !.pageSize = n, !.pageToken = t] :
               q \in {Undefined} \cup {Some(w) : w \in Queries},
               n \in {Undefined, Some(5)}, t \in OptStr("next-page")}
      [] OTHER -> {NoArgs}

NoOutcome == [how |-> "none", value |-> <<>>]

NoReply == [sent |-> FALSE, rpc |-> "", isError |-> Undefined, text |-> <<>>, error |-> Undefined]

IdleCall ==
    [phase |-> "idle", tool |-> "", args |-> NoArgs, op |-> "", pc |-> "",
     documentId |-> Undefined, log |-> <<>>, outcome |-> NoOutcome, reply |-> NoReply]

----------------------------------------------------------------------------
(* The call-tool handler's reply (part_000, CallToolRequestSchema handler) *)

\* `${v}` of an optional string.
Str(o) == IF o = Undefined THEN "undefined" ELSE o[1]

\* A reply is the JSON-RPC response to tools/call: rpc = "result" carries the
\* handler's return value (text, isError), rpc = "error" carries a protocol error
\* (error = <<[code, message]>>), which the server sends when the handler throws.

\* return { content: [{ type: 'text', text: JSON.stringify(result, null, 2) }] }
ToolResult(result) ==
    [sent |-> TRUE, rpc |-> "result", isError |-> Undefined,
     text |-> [fmt |-> "json", body |-> result], error |-> Undefined]

\* The handler's catch block: any exception becomes a result with isError: true.
HandlerCatch(error) ==
    [sent |-> TRUE, rpc |-> "result", isError |-> Some(TRUE),
     text |-> [fmt |-> "plain", body |-> <<"Google Docs API error: ">> \o error.message],
     error |-> Undefined]

\* new McpError(ErrorCode.MethodNotFound, `Unknown tool: ${name}`)
McpMethodNotFound(name) ==
    [class |-> "McpError", code |-> "MethodNotFound", message |-> <<"Unknown tool: ", name>>]

\* What the handler answers once the client operation has returned or thrown.
HandlerReturn(outcome) ==
    IF outcome.how = "thrown" THEN HandlerCatch(outcome.value) ELSE ToolResult(outcome.value)

----------------------------------------------------------------------------
(* GoogleDocsClient operations: requests and catch blocks *)

Returned(v) == [how |-> "returned", value |-> v]

Thrown(e) == [how |-> "thrown", value |-> e]

\* GoogleDocsClient.convertContentToRequests
convertContentToRequests(content) ==
    << [insertText |-> [location |-> [index |-> 1], text |-> content]] >>

\* Faulty variant of DeleteRequest: the range ends at endIndex, not at endIndex - 1.
DeleteRequest_OffByOne(currentDoc) ==
    LET content == currentDoc.body[1].content[1]
        last == content[Len(content)].endIndex
        endIndex == IF TruthyNum(last) THEN last[1] ELSE 1
    IN  << [deleteContentRange |-> [range |-> [startIndex |-> 1, endIndex |-> endIndex]]] >>

\* The batchUpdate request that clears the body (updateDocument, lines 181-198).
DeleteRequest(currentDoc) ==
    LET content == currentDoc.body[1].content[1]
        last == content[Len(content)].endIndex
        endIndex == IF TruthyNum(last) THEN last[1] ELSE 1
    IN  << [deleteContentRange |-> [range |-> [startIndex |-> 1, endIndex |-> endIndex - 1]]] >>

\* Faulty variant of HasContentToDelete: a single block counts as content to delete.
HasContentToDelete_AnyBlock(currentDoc) ==
    /\ currentDoc.body # Undefined
    /\ currentDoc.body[1].content # Undefined
    /\ Len(currentDoc.body[1].content[1]) > 0

\* currentDoc.data.body?.content && currentDoc.data.body.content.length > 1
HasContentToDelete(currentDoc) ==
    /\ currentDoc.body # Undefined
    /\ currentDoc.body[1].content # Undefined
    /\ Len(currentDoc.body[1].content[1]) > 1

ListQuery == <<"mimeType='application/vnd.google-apps.document'">>

\* `${query}` of the query argument, as lexemes.
Lexemes(query) == IF query = Undefined THEN <<"undefined">> ELSE query[1]

\* searchDocuments' q (line 350): the template's text around the raw query, as lexemes.
SearchQuery(query) ==
    <<"mimeType", "=", "'", DocMime, "'", "and", "(", "name", "contains", "'">>
    \o Lexemes(query)
    \o <<"'", "or", "fullText", "contains", "'">>
    \o Lexemes(query)
    \o <<"'", ")">>

ListFields == "nextPageToken, files(id, name, createdTime, modifiedTime, webViewLink)"

\* The catch blocks of the nine operations.
createDocumentCatch(error) == Returned([error |-> error.message])

getDocumentCatch(error) == Returned([error |-> error.message])

updateDocumentCatch(error) == Returned([error |-> error.message])

listDocumentsCatch(error) == Returned([error |-> error.message])

\* Faulty variant of deleteDocumentCatch: the error is thrown on to the caller.
deleteDocumentCatch_Rethrows(error) == [how |-> "thrown", value |-> error]

deleteDocumentCatch(error) == Returned([success |-> FALSE, error |-> error.message])

exportDocumentCatch(error) == Returned([error |-> error.message])

shareDocumentCatch(error) == Returned([success |-> FALSE, error |-> error.message])

searchDocumentsCatch(error) == Returned([error |-> error.message])

\* error.code || 'UNKNOWN_ERROR'
CodeOrUnknown(code) ==
    IF \/ code.t = "undefined"
       \/ (code.t = "number" /\ code.n = 0)
       \/ (code.t = "string" /\ code.s = "")
    THEN CodeStr("UNKNOWN_ERROR")
    ELSE code

verifyConnectionCatch(error, projectId) ==
    Returned([connected |-> FALSE, projectId |-> projectId, timestamp |-> "now",
              error |-> [message |-> error.message,
                         code    |-> CodeOrUnknown(error.code),
                         details |-> OrStr(error.details, error.stack)]])

----------------------------------------------------------------------------
(* Steps of a call: issue a request, settle it, return *)

\* await <api>(req): the request is sent and the operation suspends at pc.
Issue(s, pc, api, req) ==
    [s EXCEPT !.phase = "awaiting", !.pc = pc,
              !.log = Append(@, [api |-> api, req |-> req, res |-> "pending",
                                 data |-> Undefined, error |-> Undefined])]

\* The awaited request resolved with response data.
SettleOk(s, data) ==
    [s EXCEPT !.log[Len(s.log)] = [@ EXCEPT !.res = "ok", !.data = Some(data)]]

\* Faulty variant of SettleFailed: the rejected request is issued once more.
SettleFailed_Retries(s, e) ==
    [s EXCEPT !.log = Append([@ EXCEPT ![Len(s.log)] =
                                [@ EXCEPT !.res = "failed", !.error = Some(e)]],
                             [s.log[Len(s.log)] EXCEPT !.res = "pending"])]

\* The awaited request rejected with error e.
SettleFailed(s, e) ==
    [s EXCEPT !.log[Len(s.log)] = [@ EXCEPT !.res = "failed", !.error = Some(e)]]

\* The response data of a call that answers with no content used by the caller.
NoContent == [empty |-> TRUE]

\* The operation returned or threw; the handler replies.
Finish(s, outcome) ==
    [s EXCEPT !.phase = "replied", !.pc = "", !.outcome = outcome,
              !.reply = HandlerReturn(outcome)]

GetRequest(documentId) == [documentId |-> documentId]

BatchRequest(documentId, requests) ==
    [documentId |-> documentId, requestBody |-> [requests |-> requests]]

\* createDocument up to its first await (lines 101-108).
createDocumentStart(s, title, content) ==
    Issue([s EXCEPT !.op = "createDocument"], "create.files.create", "drive.files.create",
          [requestBody |-> [name |-> title, mimeType |-> DocMime]])

\* Faulty variant of createDocumentAfterCreate: the content is never inserted.
createDocumentAfterCreate_SkipsInsert(s, data) ==
    Issue([s EXCEPT !.documentId = data.id], "create.get", "docs.documents.get",
          GetRequest(OrStr(data.id, Some(""))))

\* createDocument from the file's creation to the next await (lines 110-130).
createDocumentAfterCreate(s, data) ==
    LET documentId == data.id
        t == [s EXCEPT !.documentId = documentId]
        requests == convertContentToRequests(s.args.content)
    IN  IF TruthyStr(s.args.content) /\ TruthyStr(documentId) /\ Len(requests) > 0
        THEN Issue(t, "create.batchUpdate", "docs.documents.batchUpdate",
                   BatchRequest(documentId, requests))
        ELSE Issue(t, "create.get", "docs.documents.get",
                   GetRequest(OrStr(documentId, Some(""))))

\* createDocument's result (lines 132-137).
createDocumentResult(s, document) ==
    Returned([documentId |-> s.documentId, title |-> s.args.title,
              url |-> <<"https://docs.google.com/document/d/", Str(s.documentId), "/edit">>,
              document |-> document])

\* getDocument (lines 150-153).
getDocumentStart(s, documentId) ==
    Issue([s EXCEPT !.op = "getDocument"], "get.get", "docs.documents.get",
          GetRequest(documentId))

\* updateDocument from the (skipped or finished) clearing to the next await (lines 202-218).
updateDocumentInsert(s) ==
    LET requests == convertContentToRequests(s.args.content)
    IN  IF Len(requests) > 0
        THEN Issue(s, "update.insert", "docs.documents.batchUpdate",
                   BatchRequest(s.args.documentId, requests))
        ELSE Issue(s, "update.get", "docs.documents.get", GetRequest(s.args.documentId))

\* Faulty variant of updateDocumentStart: the current document is fetched whatever replaceAll is.
updateDocumentStart_AlwaysFetches(s, documentId, content, replaceAll) ==
    Issue([s EXCEPT !.op = "updateDocument"], "update.current", "docs.documents.get",
          [documentId |-> documentId])

\* updateDocument up to its first await (lines 170-176, or 202-213).
updateDocumentStart(s, documentId, content, replaceAll) ==
    LET t == [s EXCEPT !.op = "updateDocument"]
    IN  IF TruthyBool(Default(replaceAll, FALSE))
        THEN Issue(t, "update.current", "docs.documents.get", GetRequest(documentId))
        ELSE updateDocumentInsert(t)

\* updateDocument once the current document is fetched (lines 178-199).
updateDocumentAfterCurrent(s, currentDoc) ==
    IF HasContentToDelete(currentDoc)
    THEN Issue(s, "update.delete", "docs.documents.batchUpdate",
               BatchRequest(s.args.documentId, DeleteRequest(currentDoc)))
    ELSE updateDocumentInsert(s)

\* listDocuments (lines 234-240).
listDocumentsStart(s, pageSize, pageToken) ==
    Issue([s EXCEPT !.op = "listDocuments"], "list.files.list", "drive.files.list",
          [pageSize |-> Default(pageSize, 10), pageToken |-> pageToken,
           q |-> ListQuery, fields |-> ListFields])

\* deleteDocument (lines 258-261).
deleteDocumentStart(s, documentId) ==
    Issue([s EXCEPT !.op = "deleteDocument"], "delete.files.delete", "drive.files.delete",
          [fileId |-> documentId])

\* exportDocument (lines 284-290).
exportDocumentStart(s, documentId, mimeType) ==
    Issue([s EXCEPT !.op = "exportDocument"], "export.files.export", "drive.files.export",
          [fileId |-> documentId, mimeType |-> Default(mimeType, "application/pdf"),
           responseType |-> "arraybuffer"])

\* shareDocument (lines 314-322).
shareDocumentStart(s, documentId, emailAddress, role) ==
    Issue([s EXCEPT !.op = "shareDocument"], "share.permissions.create",
          "drive.permissions.create",
          [fileId |-> documentId,
           requestBody |-> [type |-> "user", role |-> Default(role, "reader"),
                            emailAddress |-> emailAddress]])

\* searchDocuments (lines 346-352).
searchDocumentsStart(s, query, pageSize, pageToken) ==
    Issue([s EXCEPT !.op = "searchDocuments"], "search.files.list", "drive.files.list",
          [pageSize |-> Default(pageSize, 10), pageToken |-> pageToken,
           q |-> SearchQuery(query), fields |-> ListFields])

\* verifyConnection (lines 369-375).
verifyConnectionStart(s) ==
    Issue([s EXCEPT !.op = "verifyConnection"], "verify.files.list", "drive.files.list",
          [pageSize |-> Some(1), pageToken |-> Undefined,
           q |-> ListQuery, fields |-> "files(id, name)"])

\* Faulty variant of FileCount: a file list that is there counts as one document.
FileCount_ListIsOne(data) == IF data.files = Undefined THEN 0 ELSE 1

\* response.data.files?.length || 0
FileCount(data) == IF data.files = Undefined THEN 0 ELSE Len(data.files[1])

\* verifyConnection's result (lines 377-386).
verifyConnectionResult(data, c) ==
    Returned([connected |-> TRUE, projectId |-> c.projectId, timestamp |-> "now",
              details |-> [authType |-> getAuthType(c.auth), apiVersion |-> "v1",
                           documentCount |-> FileCount(data)]])

\* What files.list answers a request with: at most pageSize files.
FileListsFor(req) == {data \in FileLists : FileCount(data) <= req.pageSize[1]}

\* Buffer.from(data).toString('base64')
Base64(data) == <<"base64", data>>

----------------------------------------------------------------------------
(* Start-up *)

ErrServerNoCredentials ==
    <<"Either GOOGLE_APPLICATION_CREDENTIALS, GOOGLE_API_KEY, or OAuth credentials are required">>

ErrServerProjectId == <<"GOOGLE_CLOUD_PROJECT_ID environment variable is required">>

\* values['flag'] || process.env.NAME, for the six inputs (part_000 lines 503-508).
ResolveConsts(flags, env) == [k \in ConfigKeys |-> OrStr(flags[k], env[k])]

\* The module-level checks of the server (part_000 lines 510-516): the error thrown, or <<>>.
ServerPrecheck(k) ==
    IF NoCredentialSet(k) THEN ErrServerNoCredentials
    ELSE IF ~TruthyStr(k.projectId) THEN ErrServerProjectId
    ELSE <<>>

\* test-connection.ts before main runs.
NoScript == [pc |-> "none", verify |-> IdleCall, result |-> NoOutcome, printed |-> ""]

\* The process as node starts it: no transport yet, nothing logged.
NewProcess == [state |-> "running", exitCode |-> Undefined, transport |-> "none", stderr |-> "none"]

\* process.exit(code), or node's exit after an uncaught error at start-up.
Exited(p, code) == [p EXCEPT !.state = "exited", !.exitCode = Some(code)]

Init ==
    /\ prog = "none"
    /\ status = "init"
    /\ consts = NoOptions
    /\ ctor = NotCalled
    /\ startErr = <<>>
    /\ client = NoClient
    /\ call = [c \in CallIds |-> IdleCall]
    /\ netUsed = FALSE
    /\ script = NoScript
    /\ proc = NewProcess

\* node index.js: module load, the checks, new GoogleDocsServer(), server.run().
ServerMain ==
    /\ prog = "none"
    /\ \E flags \in OptionSets, env \in OptionSets, fileExists \in BOOLEAN :
         LET k == ResolveConsts(flags, env)
             pre == ServerPrecheck(k)
             made == Construct(k, env, fileExists)
         IN  /\ prog' = "server"
             /\ consts' = k
             /\ IF pre # <<>>
                THEN /\ status' = "crashed"
                     /\ startErr' = pre
                     /\ proc' = Exited(proc, 1)
                     /\ UNCHANGED <<ctor, client>>
                ELSE /\ ctor' = made
                     /\ client' = made.object
                     /\ startErr' = made.thrown
                     /\ status' = IF made.thrown # <<>> THEN "crashed" ELSE "serving"
                     /\ proc' = IF made.thrown # <<>> THEN Exited(proc, 1)
                                ELSE [proc EXCEPT !.transport = "open"]
    /\ UNCHANGED <<call, netUsed, script>>

\* A program that imports the class: new GoogleDocsClient(options).
NewClient ==
    /\ prog = "none"
    /\ \E options \in OptionSets, env \in OptionSets, fileExists \in BOOLEAN :
         LET made == Construct(options, env, fileExists)
         IN  /\ prog' = "lib"
             /\ ctor' = made
             /\ client' = made.object
             /\ startErr' = made.thrown
             /\ status' = IF made.thrown # <<>> THEN "crashed" ELSE "constructed"
    /\ UNCHANGED <<consts, call, netUsed, script, proc>>

----------------------------------------------------------------------------
(* The connection test script (test-connection.ts) *)

ErrParseArgs == <<"Unknown option">>

\* The checks of main (lines 48-54): the error thrown, or <<>>.
ScriptPrecheck(k) ==
    IF NoCredentialSet(k) THEN ErrServerNoCredentials
    ELSE IF ~TruthyStr(k.projectId) THEN ErrServerProjectId
    ELSE <<>>

\* main's catch (lines 114-117): console.error('Error:', error.message); process.exit(1).
ScriptCaught == [pc |-> "exited", verify |-> IdleCall, result |-> NoOutcome, printed |-> "error"]

\* result.error?.code === 403 (line 96), for a result with connected: false.
IsPermissionError(result) == result.error.code = CodeNum(403)

\* Faulty variant of ScriptReport: the script exits with 0 once the check has run.
ScriptReport_ExitsZero(result) ==
    IF result.connected THEN [printed |-> "success", exitCode |-> 0]
    ELSE IF IsPermissionError(result) THEN [printed |-> "permission", exitCode |-> 0]
    ELSE [printed |-> "failed", exitCode |-> 0]

\* Lines 88-113: what main prints for verifyConnection's result, and its exit code.
ScriptReport(result) ==
    IF result.connected THEN [printed |-> "success", exitCode |-> 0]
    ELSE IF IsPermissionError(result) THEN [printed |-> "permission", exitCode |-> 1]
    ELSE [printed |-> "failed", exitCode |-> 1]

\* npx tsx src/test-connection.ts: main up to its await of verifyConnection, or to
\* its exit from the catch block.  argvOk: parseArgs accepts the command line.
TestConnectionMain ==
    /\ prog = "none"
    /\ \E argvOk \in BOOLEAN, flags \in OptionSets, env \in OptionSets, fileExists \in BOOLEAN :
         LET k == ResolveConsts(flags, env)
             pre == ScriptPrecheck(k)
             made == Construct(k, env, fileExists)
         IN  /\ prog' = "script"
             /\ IF ~argvOk
                THEN /\ startErr' = ErrParseArgs
                     /\ status' = "crashed"
                     /\ script' = ScriptCaught
                     /\ proc' = Exited(proc, 1)
                     /\ UNCHANGED <<consts, ctor, client, netUsed>>
                ELSE IF pre # <<>>
                THEN /\ consts' = k
                     /\ startErr' = pre
                     /\ status' = "crashed"
                     /\ script' = ScriptCaught
                     /\ proc' = Exited(proc, 1)
                     /\ UNCHANGED <<ctor, client, netUsed>>
                ELSE IF made.thrown # <<>>
                THEN /\ consts' = k
                     /\ ctor' = made
                     /\ client' = made.object
                     /\ startErr' = made.thrown
                     /\ status' = "crashed"
                     /\ script' = ScriptCaught
                     /\ proc' = Exited(proc, 1)
                     /\ UNCHANGED netUsed
                ELSE /\ consts' = k
                     /\ ctor' = made
                     /\ client' = made.object
                     /\ startErr' = <<>>
                     /\ status' = "constructed"
                     /\ script' = [NoScript EXCEPT !.pc = "awaiting",
                                                   !.verify = verifyConnectionStart(IdleCall)]
                     /\ netUsed' = TRUE
                     /\ UNCHANGED proc
    /\ UNCHANGED call

\* main from verifyConnection's result to process.exit (lines 80-113).
ScriptExit(verify, outcome) ==
    /\ script' = [pc |-> "exited", verify |-> [verify EXCEPT !.phase = "returned", !.pc = ""],
                  result |-> outcome, printed |-> ScriptReport(outcome.value).printed]
    /\ proc' = Exited(proc, ScriptReport(outcome.value).exitCode)

\* The script's files.list settles: verifyConnection returns and main exits.
TestConnectionSettles ==
    /\ prog = "script" /\ script.pc = "awaiting" /\ proc.state = "running"
    /\ \/ \E e \in RemoteErrors :
            ScriptExit(SettleFailed(script.verify, e), verifyConnectionCatch(e, client.projectId))
       \/ \E data \in FileListsFor(script.verify.log[1].req) :
            ScriptExit(SettleOk(script.verify, data), verifyConnectionResult(data, client))
    /\ UNCHANGED <<prog, status, consts, ctor, startErr, client, call, netUsed>>

----------------------------------------------------------------------------
(* The call-tool handler *)

\* The handler from the request to its first await, or to its reply (lines 746-866).
Dispatch(name, args) ==
    LET s == [IdleCall EXCEPT !.tool = name, !.args = args]
    IN  CASE name = "google_docs_create" -> createDocumentStart(s, args.title, args.content)
          [] name = "google_docs_get"    -> getDocumentStart(s, args.documentId)
          [] name = "google_docs_update" ->
               updateDocumentStart(s, args.documentId, args.content, args.replaceAll)
          [] name = "google_docs_list"   -> listDocumentsStart(s, args.pageSize, args.pageToken)
          [] name = "google_docs_delete" -> deleteDocumentStart(s, args.documentId)
          [] name = "google_docs_export" -> exportDocumentStart(s, args.documentId, args.mimeType)
          [] name = "google_docs_share"  ->
               shareDocumentStart(s, args.documentId, args.emailAddress, args.role)
          [] name = "google_docs_search" ->
               searchDocumentsStart(s, args.query, args.pageSize, args.pageToken)
          [] name = "google_docs_verify_connection" -> verifyConnectionStart(s)
          [] OTHER -> Finish(s, Thrown(McpMethodNotFound(name)))

\* The server invokes the handler for the request tools/call(name, args); the
\* handler runs to its first await.  c is a handler invocation not in use.
HandleRequest(c, name, args) ==
    /\ prog = "server" /\ status = "serving"
    /\ proc.state = "running" /\ proc.transport = "open"
    /\ call[c].phase = "idle"
    /\ call' = [call EXCEPT ![c] = Dispatch(name, args)]
    /\ netUsed' = (netUsed \/ call'[c].log # <<>>)
    /\ UNCHANGED <<prog, status, consts, ctor, startErr, client, script, proc>>

\* A tools/call request arrives.
CallTool(c) ==
    \E name \in ToolNames \cup UnknownNames :
        \E args \in ArgSets(name) : HandleRequest(c, name, args)

\* The handler's promise resolved: the server sends the reply and the call is over.
ReplyDelivered(c) ==
    /\ proc.state = "running"
    /\ call[c].phase = "replied"
    /\ call' = [call EXCEPT ![c] = IdleCall]
    /\ UNCHANGED <<prog, status, consts, ctor, startErr, client, netUsed, script, proc>>

Awaiting(c, pc) == proc.state = "running" /\ call[c].phase = "awaiting" /\ call[c].pc = pc

\* Faulty variant of Frame: an operation's step clears the client's credential.
Frame_DropsAuth ==
    /\ client' = [client EXCEPT !.auth = NoAuth]
    /\ UNCHANGED <<prog, status, consts, ctor, startErr, netUsed, script, proc>>

\* What a step of a client operation leaves alone: no operation assigns a field of
\* the client (projectId, auth, docsClient, driveClient are set in the constructor only).
Frame == UNCHANGED <<prog, status, consts, ctor, startErr, client, netUsed, script, proc>>

\* The awaited request of call c rejects with e and catch(error) runs.
Rejects(c, catch(_)) ==
    \E e \in RemoteErrors :
        call' = [call EXCEPT ![c] = Finish(SettleFailed(call[c], e), catch(e))]

\* createDocument: files.create settles.
CreateFileSettles(c) ==
    /\ Awaiting(c, "create.files.create")
    /\ \/ Rejects(c, createDocumentCatch)
       \/ \E data \in CreatedFiles :
            call' = [call EXCEPT ![c] = createDocumentAfterCreate(SettleOk(call[c], data), data)]
    /\ Frame

\* createDocument: the content's batchUpdate settles.
CreateInsertSettles(c) ==
    /\ Awaiting(c, "create.batchUpdate")
    /\ \/ Rejects(c, createDocumentCatch)
       \/ call' = [call EXCEPT ![c] =
                     Issue(SettleOk(call[c], NoContent), "create.get", "docs.documents.get",
                           GetRequest(OrStr(call[c].documentId, Some(""))))]
    /\ Frame

\* createDocument: the final documents.get settles.
CreateGetSettles(c) ==
    /\ Awaiting(c, "create.get")
    /\ \/ Rejects(c, createDocumentCatch)
       \/ \E doc \in Documents :
            call' = [call EXCEPT ![c] =
                       Finish(SettleOk(call[c], doc), createDocumentResult(call[c], doc))]
    /\ Frame

\* getDocument: documents.get settles.
GetSettles(c) ==
    /\ Awaiting(c, "get.get")
    /\ \/ Rejects(c, getDocumentCatch)
       \/ \E doc \in Documents :
            call' = [call EXCEPT ![c] = Finish(SettleOk(call[c], doc), Returned(doc))]
    /\ Frame

\* updateDocument: the fetch of the current document settles.
UpdateCurrentSettles(c) ==
    /\ Awaiting(c, "update.current")
    /\ \/ Rejects(c, updateDocumentCatch)
       \/ \E doc \in Documents :
            call' = [call EXCEPT ![c] = updateDocumentAfterCurrent(SettleOk(call[c], doc), doc)]
    /\ Frame

\* updateDocument: the deleteContentRange batchUpdate settles.
UpdateDeleteSettles(c) ==
    /\ Awaiting(c, "update.delete")
    /\ \/ Rejects(c, updateDocumentCatch)
       \/ call' = [call EXCEPT ![c] = updateDocumentInsert(SettleOk(call[c], NoContent))]
    /\ Frame

\* updateDocument: the insertText batchUpdate settles.
UpdateInsertSettles(c) ==
    /\ Awaiting(c, "update.insert")
    /\ \/ Rejects(c, updateDocumentCatch)
       \/ call' = [call EXCEPT ![c] =
                     Issue(SettleOk(call[c], NoContent), "update.get", "docs.documents.get",
                           GetRequest(call[c].args.documentId))]
    /\ Frame

\* updateDocument: the final documents.get settles.
UpdateGetSettles(c) ==
    /\ Awaiting(c, "update.get")
    /\ \/ Rejects(c, updateDocumentCatch)
       \/ \E doc \in Documents :
            call' = [call EXCEPT ![c] = Finish(SettleOk(call[c], doc), Returned(doc))]
    /\ Frame

\* listDocuments: files.list settles.
ListSettles(c) ==
    /\ Awaiting(c, "list.files.list")
    /\ \/ Rejects(c, listDocumentsCatch)
       \/ \E data \in FileListsFor(call[c].log[Len(call[c].log)].req) :
            call' = [call EXCEPT ![c] =
                       Finish(SettleOk(call[c], data),
                              Returned([documents |-> data.files,
                                        nextPageToken |-> data.nextPageToken]))]
    /\ Frame

\* deleteDocument: files.delete settles.
DeleteSettles(c) ==
    /\ Awaiting(c, "delete.files.delete")
    /\ \/ Rejects(c, deleteDocumentCatch)
       \/ call' = [call EXCEPT ![c] =
                     Finish(SettleOk(call[c], NoContent),
                            Returned([success |-> TRUE, documentId |-> call[c].args.documentId,
                                      message |-> <<"Document ", Str(call[c].args.documentId),
                                                    " successfully deleted">>]))]
    /\ Frame

\* exportDocument: files.export settles.
ExportSettles(c) ==
    /\ Awaiting(c, "export.files.export")
    /\ \/ Rejects(c, exportDocumentCatch)
       \/ \E data \in ExportedBytes :
            call' = [call EXCEPT ![c] =
                       Finish(SettleOk(call[c], data),
                              Returned([documentId |-> call[c].args.documentId,
                                        mimeType |-> Default(call[c].args.mimeType,
                                                             "application/pdf"),
                                        content |-> Base64(data)]))]
    /\ Frame

\* shareDocument: permissions.create settles.
ShareSettles(c) ==
    /\ Awaiting(c, "share.permissions.create")
    /\ \/ Rejects(c, shareDocumentCatch)
       \/ \E data \in Permissions :
            call' = [call EXCEPT ![c] =
                       Finish(SettleOk(call[c], data),
                              Returned([success |-> TRUE,
                                        documentId |-> call[c].args.documentId,
                                        permission |-> data]))]
    /\ Frame

\* searchDocuments: files.list settles.
SearchSettles(c) ==
    /\ Awaiting(c, "search.files.list")
    /\ \/ Rejects(c, searchDocumentsCatch)
       \/ \E data \in FileListsFor(call[c].log[Len(call[c].log)].req) :
            /\ WellFormed(call[c].log[Len(call[c].log)].req.q)
            /\ call' = [call EXCEPT ![c] =
                          Finish(SettleOk(call[c], data),
                                 Returned([documents |-> data.files,
                                           nextPageToken |-> data.nextPageToken]))]
    /\ Frame

\* verifyConnection: files.list settles.
VerifySettles(c) ==
    /\ Awaiting(c, "verify.files.list")
    /\ \/ \E e \in RemoteErrors :
            call' = [call EXCEPT ![c] =
                       Finish(SettleFailed(call[c], e),
                              verifyConnectionCatch(e, client.projectId))]
       \/ \E data \in FileListsFor(call[c].log[Len(call[c].log)].req) :
            call' = [call EXCEPT ![c] =
                       Finish(SettleOk(call[c], data), verifyConnectionResult(data, client))]
    /\ Frame

----------------------------------------------------------------------------
(* Process-level handlers of the server (setupErrorHandling) *)

\* The handlers are registered once the server's constructor has run.
HandlersInstalled == prog = "server" /\ status = "serving" /\ proc.state = "running"

ProcessFrame == UNCHANGED <<prog, status, consts, ctor, startErr, client, call, netUsed, script>>

\* Faulty variant of LogFault: the process ends with code 1, as node does when no
\* handler is registered.
LogFault_Exits(p, kind) == [p EXCEPT !.state = "exited", !.exitCode = Some(1), !.stderr = kind]

\* console.error(...) in a process-level handler: the fault is logged, nothing else.
LogFault(p, kind) == [p EXCEPT !.stderr = kind]

\* process.on('uncaughtException', ...): an exception nobody caught.
UncaughtException ==
    /\ HandlersInstalled
    /\ proc' = LogFault(proc, "uncaughtException")
    /\ ProcessFrame

\* process.on('unhandledRejection', ...): a promise rejected with no handler.
UnhandledRejection ==
    /\ HandlersInstalled
    /\ proc' = LogFault(proc, "unhandledRejection")
    /\ ProcessFrame

\* process.on('SIGINT', ...) up to its await: this.server.close() closes the transport.
Sigint ==
    /\ HandlersInstalled
    /\ proc' = [proc EXCEPT !.state = "closing", !.transport = "closed"]
    /\ ProcessFrame

\* The SIGINT handler after server.close(): process.exit(0); the handlers in
\* flight end with the process.
SigintExit ==
    /\ prog = "server" /\ proc.state = "closing"
    /\ proc' = Exited(proc, 0)
    /\ call' = [c \in CallIds |-> IdleCall]
    /\ UNCHANGED <<prog, status, consts, ctor, startErr, client, netUsed, script>>

Next ==
    \/ ServerMain
    \/ NewClient
    \/ TestConnectionMain
    \/ TestConnectionSettles
    \/ \E c \in CallIds :
         \/ CallTool(c)
         \/ CreateFileSettles(c)
         \/ CreateInsertSettles(c)
         \/ CreateGetSettles(c)
         \/ GetSettles(c)
         \/ UpdateCurrentSettles(c)
         \/ UpdateDeleteSettles(c)
         \/ UpdateInsertSettles(c)
         \/ UpdateGetSettles(c)
         \/ ListSettles(c)
         \/ DeleteSettles(c)
         \/ ExportSettles(c)
         \/ ShareSettles(c)
         \/ SearchSettles(c)
         \/ VerifySettles(c)
         \/ ReplyDelivered(c)

\* The programs from start-up on: the server answering tool calls, a library
\* user's client, the connection test script.
Spec == Init /\ [][Next]_vars

\* The same with the events the server's process-level handlers answer.
ProcessNext ==
    \/ Next
    \/ UncaughtException
    \/ UnhandledRejection
    \/ Sigint
    \/ SigintExit

ProcessSpec == Init /\ [][ProcessNext]_vars

----------------------------------------------------------------------------
(* Two requests on one connection *)

\* The server calls the handler for every request as it arrives; the handler is
\* an async function and holds no lock, so a second invocation may start while
\* the first is suspended at an await.
TwoCallIds == {"c1", "c2"}

\* The requests a client sends in this scenario, all for the same document.
ConcurrentRequests ==
    {[name |-> "google_docs_update",
      args |-> [NoArgs EXCEPT !.documentId = Some("doc1"), !.content = Some("hello"),
                              !.replaceAll = Some(TRUE)]],
     [name |-> "google_docs_update",
      args |-> [NoArgs EXCEPT !.documentId = Some("doc1"), !.content = Some("hello")]],
     [name |-> "google_docs_delete",
      args |-> [NoArgs EXCEPT !.documentId = Some("doc1")]]}

\* The server set up with an API key and a project id, connected, with two
\* handler invocations available.
TwoCallsInit ==
    LET k == [NoOptions EXCEPT !.apiKey = Some(ConfigValue("apiKey")),
                               !.projectId = Some(ConfigValue("projectId"))]
        made == Construct(k, k, FALSE)
    IN  /\ prog = "server"
        /\ status = "serving"
        /\ consts = k
        /\ ctor = made
        /\ startErr = <<>>
        /\ client = made.object
        /\ call = [c \in TwoCallIds |-> IdleCall]
        /\ netUsed = FALSE
        /\ script = NoScript
        /\ proc = [NewProcess EXCEPT !.transport = "open"]

TwoCallsNext ==
    \E c \in TwoCallIds :
        \/ \E r \in ConcurrentRequests : HandleRequest(c, r.name, r.args)
        \/ UpdateCurrentSettles(c)
        \/ UpdateDeleteSettles(c)
        \/ UpdateInsertSettles(c)
        \/ UpdateGetSettles(c)
        \/ DeleteSettles(c)
        \/ ReplyDelivered(c)

TwoCallsSpec == TwoCallsInit /\ [][TwoCallsNext]_vars

----------------------------------------------------------------------------
(* Properties: credential resolution *)

\* An input is present when it is a non-empty string.
Present(o) == Len(o) = 1 /\ o # <<"">>

TriplePresent(l) ==
    Present(l.oauthClientId) /\ Present(l.oauthClientSecret) /\ Present(l.oauthRefreshToken)

\* First match in the order API key, service account, OAuth2.
FirstMatch(l) ==
    IF Present(l.apiKey) THEN "API Key"
    ELSE IF Present(l.serviceAccountPath) THEN "Service Account"
    ELSE IF TriplePresent(l) THEN "OAuth2"
    ELSE "none"

\* The credential the named strategy authenticates with.
CredentialOf(strategy, l) ==
    CASE strategy = "API Key" -> <<l.apiKey[1]>>
      [] strategy = "Service Account" -> <<l.serviceAccountPath[1]>>
      [] strategy = "OAuth2" ->
           <<l.oauthClientId[1], l.oauthClientSecret[1], l.oauthRefreshToken[1]>>
      [] OTHER -> <<>>

Constructed == ctor.called /\ ctor.thrown = <<>>

VerifyReturned(c) ==
    /\ call[c].op = "verifyConnection"
    /\ call[c].phase = "replied"
    /\ call[c].outcome.how = "returned"
    /\ call[c].outcome.value.connected

\* C1: whenever construction succeeds, the client holds exactly the strategy that
\* is the first match among API key, service account and OAuth2 for the resolved
\* inputs, with that strategy's credential; getAuthType names that strategy (as
\* verifyConnection reports it in details.authType) and is never 'Unknown'.
C1_StrategyIsFirstMatch ==
    Constructed =>
        LET want == FirstMatch(ctor.locals)
        IN  /\ want \in {"API Key", "Service Account", "OAuth2"}
            /\ getAuthType(client.auth) = want
            /\ SubSeq(client.auth.cred, 1, Len(CredentialOf(want, ctor.locals)))
                 = CredentialOf(want, ctor.locals)
            /\ client.docsClient.auth = client.auth
            /\ client.driveClient.auth = client.auth
            /\ \A c \in CallIds :
                 VerifyReturned(c) => call[c].outcome.value.details.authType = want

\* C1 witness: a server constructed with only the OAuth2 triple answered
\* verifyConnection with authType 'OAuth2'.
C1_Witness ==
    /\ Constructed
    /\ ~Present(ctor.locals.apiKey)
    /\ ~Present(ctor.locals.serviceAccountPath)
    /\ \E c \in CallIds :
         VerifyReturned(c) /\ call[c].outcome.value.details.authType = "OAuth2"

\* No credential set is resolvable, or the project identifier is absent.
Unresolvable(l) ==
    \/ ~Present(l.projectId)
    \/ (~Present(l.apiKey) /\ ~Present(l.serviceAccountPath) /\ ~TriplePresent(l))

NoRemoteCall == ~netUsed /\ \A c \in CallIds : call[c].log = <<>> /\ call[c].phase = "idle"

\* C2: when no credential set is resolvable or the project id is absent, a called
\* constructor throws and leaves no client, the server's start-up fails with an
\* error before it constructs one, and no remote call was or is ever issued.
C2_UnresolvableFailsOffline ==
    /\ (ctor.called /\ Unresolvable(ctor.locals)) =>
          /\ ctor.thrown \in {ErrProjectIdRequired, ErrNoCredentials}
          /\ status = "crashed" /\ client = NoClient /\ NoRemoteCall
    /\ (prog = "server" /\ Unresolvable(consts)) =>
          /\ startErr # <<>> /\ ~ctor.called
          /\ status = "crashed" /\ client = NoClient /\ NoRemoteCall

\* C2 witness: the constructor was called with a project id but with only two of
\* the three OAuth2 values, and threw the no-credentials error.
C2_Witness ==
    /\ prog = "lib" /\ ctor.called
    /\ Present(ctor.locals.projectId)
    /\ Present(ctor.locals.oauthClientId) /\ Present(ctor.locals.oauthClientSecret)
    /\ ~Present(ctor.locals.oauthRefreshToken)
    /\ ~Present(ctor.locals.apiKey) /\ ~Present(ctor.locals.serviceAccountPath)
    /\ ctor.thrown = ErrNoCredentials

Contains(message, piece) == \E i \in 1..Len(message) : message[i] = piece

MissingKeyFile(l) ==
    ~Present(l.apiKey) /\ Present(l.serviceAccountPath) /\ ~ctor.fileExists

\* C3 as stated: no API key, a service-account path naming no file: construction
\* fails with an error whose message contains the path.
C3_Original ==
    (ctor.called /\ MissingKeyFile(ctor.locals)) =>
        /\ ctor.thrown # <<>>
        /\ Contains(ctor.thrown, ctor.locals.serviceAccountPath[1])

\* C3 amended: with a project id present, no API key, and a service-account path
\* naming no file, construction fails with the error whose message contains the
\* path, also when the OAuth2 triple is complete (no client, no fall-through);
\* without a project id it fails with the project-id error instead.
C3_MissingKeyFileFails ==
    (ctor.called /\ MissingKeyFile(ctor.locals)) =>
        /\ client = NoClient /\ status = "crashed"
        /\ IF Present(ctor.locals.projectId)
           THEN /\ Contains(ctor.thrown, ctor.locals.serviceAccountPath[1])
                /\ ctor.thrown = startErr
           ELSE ctor.thrown = ErrProjectIdRequired

\* C3 witness: the server's constructor threw for a missing key file although the
\* OAuth2 triple was complete.
C3_Witness ==
    /\ prog = "server" /\ ctor.called /\ MissingKeyFile(ctor.locals)
    /\ TriplePresent(ctor.locals)
    /\ Present(ctor.locals.projectId)
    /\ Contains(ctor.thrown, "/keys/sa.json")

----------------------------------------------------------------------------
(* Properties: client operations and the handler's replies *)

Invoked(c) == call[c].op # ""

Done(c) == call[c].phase = "replied"

FailedAt(c) == {i \in DOMAIN call[c].log : call[c].log[i].res = "failed"}

Failed(c) == FailedAt(c) # {}

\* The error object the operation `op` documents for a remote error e.
ErrorShape(op, v, e) ==
    CASE op \in {"deleteDocument", "shareDocument"} ->
           DOMAIN v = {"success", "error"} /\ v.success = FALSE /\ v.error = e.message
      [] op = "verifyConnection" ->
           /\ {"connected", "error"} \subseteq DOMAIN v
           /\ v.connected = FALSE
           /\ v.error.message = e.message
      [] OTHER -> DOMAIN v = {"error"} /\ v.error = e.message

\* C4: an invoked operation never throws; when one of its remote calls failed it
\* returns that operation's error object carrying the remote error's message, and
\* the handler answers with that object, having seen no exception.
C4_RemoteFailureIsReturned ==
    \A c \in CallIds :
        (Invoked(c) /\ Done(c)) =>
            /\ call[c].outcome.how = "returned"
            /\ \A i \in FailedAt(c) :
                 /\ ErrorShape(call[c].op, call[c].outcome.value, call[c].log[i].error[1])
                 /\ call[c].reply.text = [fmt |-> "json", body |-> call[c].outcome.value]

\* C4 witness: updateDocument returned {error} after its fourth remote call, the
\* final fetch, failed.
C4_Witness ==
    \E c \in CallIds :
        /\ call[c].op = "updateDocument" /\ Done(c)
        /\ FailedAt(c) = {4}
        /\ call[c].outcome.how = "returned"
        /\ DOMAIN call[c].outcome.value = {"error"}

\* The documented success payload of each tool.
SuccessShape(tool, v) ==
    CASE tool = "google_docs_create" -> DOMAIN v = {"documentId", "title", "url", "document"}
      [] tool \in {"google_docs_get", "google_docs_update"} -> DOMAIN v = {"body"}
      [] tool \in {"google_docs_list", "google_docs_search"} ->
           DOMAIN v = {"documents", "nextPageToken"}
      [] tool = "google_docs_delete" ->
           DOMAIN v = {"success", "documentId", "message"} /\ v.success
      [] tool = "google_docs_export" -> DOMAIN v = {"documentId", "mimeType", "content"}
      [] tool = "google_docs_share" ->
           DOMAIN v = {"success", "documentId", "permission"} /\ v.success
      [] tool = "google_docs_verify_connection" ->
           DOMAIN v = {"connected", "projectId", "timestamp", "details"} /\ v.connected
      [] OTHER -> FALSE

\* C5: the reply to a call of a registered tool is a success payload of the
\* documented shape or an error payload with isError: true, and a call whose
\* remote call failed is answered with isError: true.
C5_ReplyIsSuccessOrIsError ==
    \A c \in CallIds :
        (Done(c) /\ call[c].tool \in ToolNames) =>
            LET r == call[c].reply
            IN  /\ r.sent /\ r.rpc = "result"
                /\ \/ r.isError = Some(TRUE)
                   \/ (r.text.fmt = "json" /\ SuccessShape(call[c].tool, r.text.body))
                /\ Failed(c) => r.isError = Some(TRUE)

\* C6: a call of an unregistered name invokes no operation, sends no request,
\* leaves the server serving, and is answered with a protocol-level
\* 'method not found' error.
C6_UnknownToolIsMethodNotFound ==
    \A c \in CallIds :
        (Done(c) /\ call[c].tool \notin ToolNames) =>
            /\ ~Invoked(c) /\ call[c].log = <<>>
            /\ status = "serving"
            /\ call[c].reply.rpc = "error"
            /\ call[c].reply.error # Undefined
            /\ call[c].reply.error[1].code = "MethodNotFound"

----------------------------------------------------------------------------
(* Properties: updateDocument *)

BatchUpdate == "docs.documents.batchUpdate"

DocumentsGet == "docs.documents.get"

IsDelete(entry) ==
    /\ entry.api = BatchUpdate
    /\ \E i \in DOMAIN entry.req.requestBody.requests :
         "deleteContentRange" \in DOMAIN entry.req.requestBody.requests[i]

\* The number of blocks of a document's body content (0 without body or content).
NBlocks(doc) ==
    IF doc.body = Undefined THEN 0
    ELSE IF doc.body[1].content = Undefined THEN 0
    ELSE Len(doc.body[1].content[1])

LastEndIndex(doc) == doc.body[1].content[1][NBlocks(doc)].endIndex

UpdateCall(c) == call[c].op = "updateDocument"

ReplaceAll(c) == call[c].args.replaceAll = Some(TRUE)

\* The current document of a replaceAll update has been fetched.
CurrentFetched(c) ==
    /\ UpdateCall(c) /\ ReplaceAll(c)
    /\ Len(call[c].log) >= 1
    /\ call[c].log[1].res = "ok"

CurrentDoc(c) == call[c].log[1].data[1]

InsertAtOne(documentId, content) ==
    [documentId |-> documentId,
     requestBody |-> [requests |->
        << [insertText |-> [location |-> [index |-> 1], text |-> content]] >>]]

DeleteRange(documentId, from, to) ==
    [documentId |-> documentId,
     requestBody |-> [requests |->
        << [deleteContentRange |-> [range |-> [startIndex |-> from, endIndex |-> to]]] >>]]

\* C7: a replaceAll update whose fetched document has at most one content block
\* (or no body content) issues no deleteContentRange; its only batchUpdate is the
\* one insertText at index 1 with the new content, issued right after the fetch.
C7_SingleBlockNoDelete ==
    \A c \in CallIds :
        (CurrentFetched(c) /\ NBlocks(CurrentDoc(c)) <= 1) =>
            /\ Len(call[c].log) >= 2
            /\ \A i \in DOMAIN call[c].log :
                 /\ ~IsDelete(call[c].log[i])
                 /\ call[c].log[i].api = BatchUpdate =>
                      /\ i = 2
                      /\ call[c].log[i].req
                           = InsertAtOne(call[c].args.documentId, call[c].args.content)

\* C7 witness: a replaceAll update of a one-block document completed with the
\* requests fetch, insertText, fetch.
C7_Witness ==
    \E c \in CallIds :
        /\ CurrentFetched(c) /\ Done(c) /\ ~Failed(c)
        /\ NBlocks(CurrentDoc(c)) = 1
        /\ Len(call[c].log) = 3
        /\ call[c].log[2].req = InsertAtOne(Some("doc1"), Some("hello"))

IsGetOf(entry, documentId) ==
    entry.api = DocumentsGet /\ entry.req = [documentId |-> documentId]

IsInsertOf(entry, documentId, content) ==
    entry.api = BatchUpdate /\ entry.req = InsertAtOne(documentId, content)

\* entry is one batchUpdate of one deleteContentRange from index 1 to an end index
\* that endOk accepts for the document doc.
IsDeleteOf(entry, documentId, doc, endOk(_, _)) ==
    /\ entry.api = BatchUpdate
    /\ entry.req.documentId = documentId
    /\ Len(entry.req.requestBody.requests) = 1
    /\ DOMAIN entry.req.requestBody.requests[1] = {"deleteContentRange"}
    /\ entry.req.requestBody.requests[1].deleteContentRange.range.startIndex = 1
    /\ endOk(doc, entry.req.requestBody.requests[1].deleteContentRange.range.endIndex)

\* The kinds of request an update issues, in order.
UpdatePlan(c) ==
    IF ~ReplaceAll(c) THEN <<"insert", "get">>
    ELSE IF ~CurrentFetched(c) THEN <<"get">>
    ELSE IF NBlocks(CurrentDoc(c)) > 1 THEN <<"get", "delete", "insert", "get">>
    ELSE <<"get", "insert", "get">>

\* An update issues its requests in the order fetch, delete, insertText, fetch
\* (without replaceAll: insertText, fetch) and returns the final fetch's document.
UpdateSequence(endOk(_, _)) ==
    \A c \in CallIds :
        UpdateCall(c) =>
            LET d == call[c].args.documentId
                plan == UpdatePlan(c)
            IN  /\ Len(call[c].log) <= Len(plan)
                /\ \A i \in DOMAIN call[c].log :
                     CASE plan[i] = "get" -> IsGetOf(call[c].log[i], d)
                       [] plan[i] = "insert" ->
                            IsInsertOf(call[c].log[i], d, call[c].args.content)
                       [] plan[i] = "delete" ->
                            IsDeleteOf(call[c].log[i], d, CurrentDoc(c), endOk)
                /\ (Done(c) /\ ~Failed(c)) =>
                     /\ Len(call[c].log) = Len(plan)
                     /\ call[c].outcome = Returned(call[c].log[Len(plan)].data[1])

\* end = lastBlock.endIndex - 1, read literally (a missing endIndex gives no number).
EndLiteral(doc, end) ==
    LastEndIndex(doc) # Undefined /\ end = LastEndIndex(doc)[1] - 1

\* end = (lastBlock.endIndex || 1) - 1: a missing or zero endIndex counts as 1.
EndWithFallback(doc, end) ==
    IF LastEndIndex(doc) = Undefined \/ LastEndIndex(doc) = Some(0)
    THEN end = 0
    ELSE end = LastEndIndex(doc)[1] - 1

C9_DeleteRangeNonEmpty ==
    \A c \in CallIds :
        \A i \in DOMAIN call[c].log :
            (UpdateCall(c) /\ IsDelete(call[c].log[i])) =>
                LET range == call[c].log[i].req.requestBody.requests[1].deleteContentRange.range
                IN  range.startIndex = 1 /\ range.startIndex < range.endIndex

\* C10 as stated: an invoked operation has issued at least 1 and at most 3 requests.
C10_Original ==
    \A c \in CallIds : Invoked(c) => (Len(call[c].log) >= 1 /\ Len(call[c].log) <= 3)

SingleCallOps ==
    {"getDocument", "listDocuments", "deleteDocument", "exportDocument", "shareDocument",
     "searchDocuments", "verifyConnection"}

\* C10 amended: an invoked operation issues at least 1 and at most 4 requests; a
\* fourth is issued only by updateDocument with replaceAll = true on a document of
\* more than one block; createDocument issues at most 3, the other operations 1.
C10_RemoteCallCount ==
    \A c \in CallIds :
        Invoked(c) =>
            /\ Len(call[c].log) >= 1 /\ Len(call[c].log) <= 4
            /\ Len(call[c].log) = 4 =>
                 (CurrentFetched(c) /\ NBlocks(CurrentDoc(c)) > 1)
            /\ call[c].op = "createDocument" => Len(call[c].log) <= 3
            /\ call[c].op \in SingleCallOps => Len(call[c].log) = 1

\* C10 witness: an update has issued its fourth request.
C10_Witness ==
    \E c \in CallIds : UpdateCall(c) /\ Len(call[c].log) = 4 /\ call[c].phase = "awaiting"

----------------------------------------------------------------------------
(* Properties: no retries *)

SameRequest(a, b) == a.api = b.api /\ a.req = b.req

\* A failed request is the operation's last one: the operation has returned the
\* error result built from that failure and issued nothing after it.
FailureEndsOperation(c) ==
    \A i \in FailedAt(c) :
        /\ i = Len(call[c].log)
        /\ Done(c)
        /\ call[c].outcome.how = "returned"
        /\ ErrorShape(call[c].op, call[c].outcome.value, call[c].log[i].error[1])

\* C11 as stated: a failed remote call ends the operation with its error result,
\* and no request is issued twice within one invocation.
C11_Original ==
    \A c \in CallIds :
        /\ FailureEndsOperation(c)
        /\ \A i, j \in DOMAIN call[c].log :
             i < j => ~SameRequest(call[c].log[i], call[c].log[j])

\* C11 amended: a failed remote call ends the operation with its error result; a
\* request is issued again only after it succeeded, and only by a replaceAll
\* update, whose first and last request are the same fetch of the document.
C11_NoRetry ==
    \A c \in CallIds :
        /\ FailureEndsOperation(c)
        /\ \A i, j \in DOMAIN call[c].log :
             (i < j /\ SameRequest(call[c].log[i], call[c].log[j])) =>
                 /\ call[c].log[i].res = "ok"
                 /\ UpdateCall(c) /\ ReplaceAll(c)
                 /\ i = 1 /\ j = Len(UpdatePlan(c))
                 /\ call[c].log[i].api = DocumentsGet

\* C11 witness: createDocument's batchUpdate, its second request, failed; the
\* operation returned {error} without the document fetch.
C11_Witness ==
    \E c \in CallIds :
        /\ call[c].op = "createDocument" /\ Done(c)
        /\ Len(call[c].log) = 2
        /\ call[c].log[1].res = "ok"
        /\ call[c].log[2].api = BatchUpdate /\ call[c].log[2].res = "failed"
        /\ DOMAIN call[c].outcome.value = {"error"}

----------------------------------------------------------------------------
(* Properties: verifyConnection *)

VerifyCall(c) == call[c].op = "verifyConnection"

\* The number of files of a files.list response: 0 without a list or with an
\* empty one, otherwise 1 (the request asks for one file at most).
ZeroOrOne(data) == IF data.files = Undefined \/ data.files = Some(<<>>) THEN 0 ELSE 1

----------------------------------------------------------------------------
(* Properties: the connection test script *)

ScriptExited == prog = "script" /\ script.pc = "exited"

\* The script's verifyConnection call was rejected by the service with error e.
ScriptRejectedWith(e) ==
    /\ ScriptExited
    /\ Len(script.verify.log) = 1
    /\ script.verify.log[1].res = "failed"
    /\ script.verify.log[1].error = Some(e)

Is403(code) == code = CodeNum(403) \/ code = CodeStr("403")

\* C13: when the service rejects the script's list call with status 403, as the
\* number 403 or as the string "403", verifyConnection returns connected: false
\* with error.code the remote code, and the script prints the permission hint and
\* exits with code 1.
C13_PermissionHint ==
    \A e \in RemoteErrors :
        (ScriptRejectedWith(e) /\ Is403(e.code)) =>
            /\ script.result.how = "returned"
            /\ script.result.value.connected = FALSE
            /\ script.result.value.error.code = e.code
            /\ script.printed = "permission"
            /\ proc.state = "exited" /\ proc.exitCode = Some(1)

\* The script as a program of its own: main and the settling of its one request.
ScriptNext == TestConnectionMain \/ TestConnectionSettles

\* Every request the script awaits settles: the service answers or the HTTP
\* client rejects (main awaits nothing else).
ScriptSpec == Init /\ [][ScriptNext]_vars /\ WF_vars(TestConnectionSettles)

ScriptConnected == script.result.how = "returned" /\ script.result.value.connected

\* The exit code of a script that has exited is 0 or 1, and 0 exactly when
\* verifyConnection returned connected: true.
ScriptExitCode ==
    /\ prog = "script" => (script.pc = "exited" <=> proc.state = "exited")
    /\ ScriptExited =>
         /\ proc.exitCode \in {Some(0), Some(1)}
         /\ proc.exitCode = Some(0) <=> ScriptConnected
         /\ status = "crashed" => (script.printed = "error" /\ startErr # <<>>)

\* C14: the script, once started, ends with an exit code; the code is 0 if and
\* only if verifyConnection returned connected: true, and 1 on every other path
\* (rejected command line, missing credentials, missing project id, constructor
\* failure, connected: false).
C14_ScriptExits == []ScriptExitCode /\ (prog = "script" ~> proc.state = "exited")

\* C14 witness: the script exited with 1 after verifyConnection returned
\* connected: false with a code other than 403.
C14_Witness ==
    /\ ScriptExited
    /\ script.result.how = "returned"
    /\ script.result.value.connected = FALSE
    /\ ~Is403(script.result.value.error.code)
    /\ script.printed = "failed"
    /\ proc.exitCode = Some(1)

----------------------------------------------------------------------------
(* Properties: what a reply discloses *)

\* The error payload of operation op for the remote error e carries nothing but
\* e's message, e's code and e's details when it has any.
OnlyMessageCodeDetails(op, v, e) ==
    IF op = "verifyConnection"
    THEN /\ v.connected = FALSE
         /\ DOMAIN v.error = {"message", "code", "details"}
         /\ v.error.message = e.message
         /\ v.error.code = CodeOrUnknown(e.code)
         /\ v.error.details = e.details
    ELSE ErrorShape(op, v, e)

\* C15: the reply to a call of one of the nine tools whose remote call failed
\* carries only the error's message, code and optional details, and never the
\* error's stack trace.
C15_NoStackTrace ==
    \A c \in CallIds :
        (Done(c) /\ Invoked(c)) =>
            \A i \in FailedAt(c) :
                LET e == call[c].log[i].error[1]
                    v == call[c].reply.text.body
                IN  /\ call[c].reply.text.fmt = "json"
                    /\ OnlyMessageCodeDetails(call[c].op, v, e)
                    /\ call[c].op = "verifyConnection" => v.error.details # e.stack

----------------------------------------------------------------------------
(* Properties: argument validation *)

\* inputSchema.required of each registered tool (ListToolsRequestSchema handler).
RequiredArgs(tool) ==
    CASE tool = "google_docs_create" -> {"title"}
      [] tool = "google_docs_get"    -> {"documentId"}
      [] tool = "google_docs_update" -> {"documentId", "content"}
      [] tool = "google_docs_delete" -> {"documentId"}
      [] tool = "google_docs_export" -> {"documentId"}
      [] tool = "google_docs_share"  -> {"documentId", "emailAddress"}
      [] tool = "google_docs_search" -> {"query"}
      [] OTHER -> {}

MissingRequired(c) == \E a \in RequiredArgs(call[c].tool) : call[c].args[a] = Undefined

\* C16: a call of a registered tool that omits one of the tool's required
\* arguments is not forwarded to the client operation and sends no request.
C16_MissingArgumentNotForwarded ==
    \A c \in CallIds :
        (call[c].tool \in ToolNames /\ MissingRequired(c)) =>
            ~Invoked(c) /\ call[c].log = <<>>

----------------------------------------------------------------------------
(* Properties: createDocument *)

CreateCall(c) == call[c].op = "createDocument"

\* The id that files.create answered with (createDocument's first request).
CreatedId(c) == call[c].log[1].data[1].id

\* documentId || ''
IdOrEmpty(id) == IF Present(id) THEN id ELSE Some("")

\* A content argument was supplied.
ContentSupplied(c) == call[c].args.content # Undefined

\* A non-empty content was supplied and files.create answered with an id.
ContentAndId(c) == Present(call[c].args.content) /\ Present(CreatedId(c))

\* createDocument issues files.create, then, when inserts(c), one batchUpdate of
\* one insertText of the whole content at index 1, then documents.get; without
\* inserts(c) no batchUpdate; its result on success is {documentId, title, url,
\* document} with the created file's id, also inside url.
CreateSequence(inserts(_)) ==
    \A c \in CallIds :
        CreateCall(c) =>
            LET log == call[c].log
                n == Len(log)
            IN  /\ n >= 1
                /\ log[1].api = "drive.files.create"
                /\ log[1].req = [requestBody |-> [name |-> call[c].args.title,
                                                  mimeType |-> "application/vnd.google-apps.document"]]
                /\ n >= 2 =>
                     /\ log[1].res = "ok"
                     /\ IF inserts(c)
                        THEN /\ n <= 3
                             /\ IsInsertOf(log[2], CreatedId(c), call[c].args.content)
                             /\ n = 3 => (log[2].res = "ok"
                                            /\ IsGetOf(log[3], IdOrEmpty(CreatedId(c))))
                        ELSE /\ n = 2
                             /\ IsGetOf(log[2], IdOrEmpty(CreatedId(c)))
                /\ (Done(c) /\ ~Failed(c)) =>
                     /\ n = (IF inserts(c) THEN 3 ELSE 2)
                     /\ call[c].outcome =
                          Returned([documentId |-> CreatedId(c),
                                    title |-> call[c].args.title,
                                    url |-> <<"https://docs.google.com/document/d/",
                                              Str(CreatedId(c)), "/edit">>,
                                    document |-> log[n].data[1]])

\* C17 as stated: files.create, then one batchUpdate inserting the content at
\* index 1 whenever a content argument is supplied, then documents.get.
C17_Original == CreateSequence(ContentSupplied)

\* C17 amended: the batchUpdate is issued exactly when the content is a non-empty
\* string and files.create answered with an id; an empty content, or a created
\* file without id, goes from files.create straight to documents.get.
C17_CreateSequence == CreateSequence(ContentAndId)

\* C17 witness: createDocument with content 'hello' completed with files.create,
\* batchUpdate, documents.get and returned the created id, also in its url.
C17_Witness ==
    \E c \in CallIds :
        /\ CreateCall(c) /\ Done(c) /\ ~Failed(c)
        /\ Len(call[c].log) = 3
        /\ call[c].args.content = Some("hello")
        /\ call[c].outcome.value.documentId = Some("new-doc")
        /\ call[c].outcome.value.url = <<"https://docs.google.com/document/d/", "new-doc", "/edit">>

----------------------------------------------------------------------------
(* Properties: the search filter *)

SearchCall(c) == call[c].op = "searchDocuments"

\* C18: for every query string the filter that searchDocuments sends lists a file
\* only if the file has the document mime type and its name or its full text
\* contains the query; no query makes the filter list a file of another mime type.
C18_SearchFilterRestricts ==
    \A c \in CallIds :
        SearchCall(c) =>
            \A f \in DriveFiles :
                Admits(call[c].log[1].req.q, f) =>
                    /\ f.mimeType = <<"application/vnd.google-apps.document">>
                    /\ \/ ContainsText(f.name, Lexemes(call[c].args.query))
                       \/ ContainsText(f.fullText, Lexemes(call[c].args.query))

\* For a query without a quote the sent filter lists exactly the documents whose
\* name or full text contains the query.
PlainQueryFilter ==
    \A c \in CallIds :
        (SearchCall(c) /\ ~ContainsText(Lexemes(call[c].args.query), <<"'">>)) =>
            \A f \in DriveFiles :
                Admits(call[c].log[1].req.q, f) <=>
                    /\ f.mimeType = <<"application/vnd.google-apps.document">>
                    /\ \/ ContainsText(f.name, Lexemes(call[c].args.query))
                       \/ ContainsText(f.fullText, Lexemes(call[c].args.query))

----------------------------------------------------------------------------
(* Properties: process-level faults and SIGINT *)

ServerSetUp == prog = "server" /\ status = "serving"

\* The server set up and alive accepts a tool call on every idle handler slot.
KeepsServing ==
    (ServerSetUp /\ proc.state = "running") =>
        /\ proc.transport = "open"
        /\ \A c \in CallIds : call[c].phase = "idle" => ENABLED CallTool(c)

\* The server's process has exited only with code 0 and with its transport
\* closed; while it closes, the transport is already closed.
ExitIsOrderly ==
    ServerSetUp =>
        /\ proc.state = "exited" => (proc.exitCode = Some(0) /\ proc.transport = "closed")
        /\ proc.state = "closing" => (proc.exitCode = Undefined /\ proc.transport = "closed")
        /\ proc.state = "running" => proc.exitCode = Undefined

\* A step that logs a process-level fault changes nothing else: the process, the
\* transport and the calls in flight stay as they are.
FaultOnlyLogs ==
    (ServerSetUp /\ proc'.stderr # proc.stderr) =>
        /\ proc' = [proc EXCEPT !.stderr = proc'.stderr]
        /\ proc'.stderr \in {"uncaughtException", "unhandledRejection"}
        /\ proc'.state = "running"
        /\ UNCHANGED <<prog, status, client, call>>

\* The process of a set-up server ends only from the SIGINT handler: the step
\* that exits starts where the transport has been closed, and exits with 0.
OnlySigintExits ==
    (ServerSetUp /\ proc.state # "exited" /\ proc'.state = "exited") =>
        /\ proc.state = "closing" /\ proc.transport = "closed"
        /\ proc'.exitCode = Some(0)

\* C19: once the server is set up, an uncaught exception or an unhandled
\* rejection is logged and the process keeps serving tool calls; the process
\* ends only on SIGINT, whose handler first closes the transport and then exits
\* with code 0.
C19_FaultsLoggedSigintExits ==
    /\ [](KeepsServing /\ ExitIsOrderly)
    /\ [][FaultOnlyLogs /\ OnlySigintExits]_vars

\* C19 witness: an unhandled rejection has been logged, a tool call has been
\* answered, and the SIGINT handler has closed the transport and not yet exited.
C19_Witness ==
    /\ ServerSetUp
    /\ proc.stderr = "unhandledRejection"
    /\ proc.state = "closing" /\ proc.transport = "closed"
    /\ \E c \in CallIds : Done(c) /\ call[c].reply.sent

----------------------------------------------------------------------------
(* Properties: one tool call at a time *)

InFlight(c) == call[c].phase = "awaiting"

LastRequest(c) == call[c].log[Len(call[c].log)]

\* Call c has a request pending that changes document d.
MutationPending(c, d) ==
    /\ InFlight(c)
    /\ \/ LastRequest(c).api = "docs.documents.batchUpdate" /\ LastRequest(c).req.documentId = d
       \/ LastRequest(c).api = "drive.files.delete" /\ LastRequest(c).req.fileId = d

\* Call c is a replaceAll update whose fetch of the current document is pending:
\* the delete range will be computed from that fetch's answer.
FetchingForDelete(c) ==
    /\ InFlight(c) /\ call[c].pc = "update.current"
    /\ UpdateCall(c) /\ ReplaceAll(c)

\* C20: tool calls are processed one at a time: no two calls have a remote call
\* pending at once, so no call changes a document while a replaceAll update of
\* that document is between its fetch and its delete.
C20_OneCallAtATime ==
    \A c1, c2 \in DOMAIN call :
        c1 # c2 =>
            /\ ~(InFlight(c1) /\ InFlight(c2))
            /\ ~(FetchingForDelete(c1) /\ MutationPending(c2, call[c1].args.documentId))

----------------------------------------------------------------------------
(* The nine operations on one client, two at a time *)

\* One request per tool, each with all its arguments.
NineRequests ==
    {[name |-> "google_docs_create",
      args |-> [NoArgs EXCEPT !.title = Some("Title"), !.content = Some("hello")]],
     [name |-> "google_docs_get",
      args |-> [NoArgs EXCEPT !.documentId = Some("doc1")]],
     [name |-> "google_docs_update",
      args |-> [NoArgs EXCEPT !.documentId = Some("doc1"), !.content = Some("hello"),
                              !.replaceAll = Some(TRUE)]],
     [name |-> "google_docs_list",
      args |-> [NoArgs EXCEPT !.pageSize = Some(5)]],
     [name |-> "google_docs_delete",
      args |-> [NoArgs EXCEPT !.documentId = Some("doc1")]],
     [name |-> "google_docs_export",
      args |-> [NoArgs EXCEPT !.documentId = Some("doc1"), !.mimeType = Some("text/plain")]],
     [name |-> "google_docs_share",
      args |-> [NoArgs EXCEPT !.documentId = Some("doc1"),
                              !.emailAddress = Some("a@example.com"), !.role = Some("writer")]],
     [name |-> "google_docs_search",
      args |-> [NoArgs EXCEPT !.query = Some(<<"notes">>)]],
     [name |-> "google_docs_verify_connection", args |-> NoArgs]}

\* The server set up with a service account key file and a project id, connected,
\* with two handler invocations available.
NineOpsInit ==
    LET k == [NoOptions EXCEPT !.serviceAccountPath = Some(ConfigValue("serviceAccountPath")),
                               !.projectId = Some(ConfigValue("projectId"))]
        made == Construct(k, k, TRUE)
    IN  /\ prog = "server"
        /\ status = "serving"
        /\ consts = k
        /\ ctor = made
        /\ startErr = <<>>
        /\ client = made.object
        /\ call = [c \in TwoCallIds |-> IdleCall]
        /\ netUsed = FALSE
        /\ script = NoScript
        /\ proc = [NewProcess EXCEPT !.transport = "open"]

NineOpsNext ==
    \E c \in TwoCallIds :
        \/ \E r \in NineRequests : HandleRequest(c, r.name, r.args)
        \/ CreateFileSettles(c)
        \/ CreateInsertSettles(c)
        \/ CreateGetSettles(c)
        \/ GetSettles(c)
        \/ UpdateCurrentSettles(c)
        \/ UpdateDeleteSettles(c)
        \/ UpdateInsertSettles(c)
        \/ UpdateGetSettles(c)
        \/ ListSettles(c)
        \/ DeleteSettles(c)
        \/ ExportSettles(c)
        \/ ShareSettles(c)
        \/ SearchSettles(c)
        \/ VerifySettles(c)
        \/ ReplyDelivered(c)

NineOpsSpec == NineOpsInit /\ [][NineOpsNext]_vars

----------------------------------------------------------------------------
(* Properties: the client after construction *)

\* The fields of the client: the credential handle, the strategy it stands for,
\* the project id and the two API client handles.
ClientFields ==
    <<client.auth, getAuthType(client.auth), client.projectId,
      client.docsClient, client.driveClient>>

\* C21: once the client is constructed, no step of any of the nine operations,
\* succeeding or failing, alone or while another call is in flight, changes the
\* credential handle, the selected strategy, the project id or the two API client
\* handles; the client stays what the constructor made it, and both API clients
\* keep the one credential handle.
C21_ClientUnchanged ==
    /\ []( Constructed =>
             /\ client = ctor.object
             /\ client.docsClient.auth = client.auth
             /\ client.driveClient.auth = client.auth )
    /\ [][ Constructed => ClientFields' = ClientFields /\ ctor' = ctor ]_vars

\* Two calls have interleaved on the constructed client: one has returned a
\* failure, the other has sent its second request and is awaiting the answer.
C21_Witness ==
    /\ Constructed
    /\ getAuthType(client.auth) = "Service Account"
    /\ \E c, d \in DOMAIN call :
         /\ c # d
         /\ call[c].phase = "replied" /\ Failed(c)
         /\ call[d].phase = "awaiting" /\ Len(call[d].log) = 2

----------------------------------------------------------------------------
(* Properties: what a failed update or create leaves on the remote service *)

\* The operation of call c returned an error result ({error: message}).
ReturnedError(c) ==
    /\ Done(c)
    /\ call[c].outcome.how = "returned"
    /\ "error" \in DOMAIN call[c].outcome.value

\* The requests of call c to `api` that the remote service answered with success,
\* that is, the ones it carried out.
CarriedOut(c, api) ==
    {i \in DOMAIN call[c].log : call[c].log[i].api = api /\ call[c].log[i].res = "ok"}

\* The deletions and the insertions of call c that the remote service carried out.
DeletesDone(c) == {i \in CarriedOut(c, BatchUpdate) : IsDelete(call[c].log[i])}

InsertsDone(c) == {i \in CarriedOut(c, BatchUpdate) : ~IsDelete(call[c].log[i])}

\* C22: when updateDocument returns an error result, the remote service has carried
\* out none of the call's batch updates, so the document's content is what it was
\* before the call; in particular an update with replaceAll that returns an error
\* has not deleted the existing content without inserting the new content.
C22_FailedUpdateChangesNothing ==
    \A c \in DOMAIN call :
        (UpdateCall(c) /\ ReturnedError(c)) =>
            /\ CarriedOut(c, BatchUpdate) = {}
            /\ (DeletesDone(c) # {} => InsertsDone(c) # {})

\* C23: when createDocument returns an error result, the remote service has not
\* carried out the call's files.create: no document exists whose id the caller
\* was not told.
C23_FailedCreateCreatesNothing ==
    \A c \in DOMAIN call :
        (CreateCall(c) /\ ReturnedError(c)) => CarriedOut(c, "drive.files.create") = {}

====
